---- MODULE Spec2Model ----
(***************************************************************************)
(* A model of fountain_setup_parser.py: the line scanner                   *)
(* (_extract_scenes), the grouper (_group_by_setup), the disambiguator     *)
(* (_get_scene_suffix), the two formatters and main().                     *)
(*                                                                         *)
(* A string is a sequence of one-character strings, so that strip(),       *)
(* upper(), startswith() and the two regular expressions are computed on   *)
(* the characters.  A text is the sequence of its lines (what              *)
(* content.split('\n') yields, and what '\n'.join(output) is built from);  *)
(* no line holds a newline.  Python's None is the empty tuple and a value  *)
(* v that may be None is held as <<v>>.                                    *)
(***************************************************************************)
EXTENDS Integers, Sequences, FiniteSets, TLC

VARIABLES
    passes,               \* the formatting passes made on this parser so far
    input_file,           \* main: the file named on the command line
    content,              \* the input text, as its lines
    i,                    \* _extract_scenes: index of the next line (1-based)
    scan,                 \* _extract_scenes: its locals, as a record
    pc,                   \* where the modelled run is
    scenes,               \* parse_file / parse_file_as_screenplay: the scanner's result
    setup_groups,         \* parse_file: the grouper's result
    reorganized_content,  \* main: the schedule text
    screenplay_content,   \* main: the screenplay text
    schedule_file,        \* main: what was written to SCHEDULE_<name>
    screenplay_file,      \* main: what was written to SETUPSCREENPLAY_<name>
    raised_error,         \* the exception that ended the run (main prints it, exits 1)
    scene_setup_count,    \* a caller's counter map handed to _get_scene_suffix
    call                  \* the last _get_scene_suffix call: key, outcome, history

vars == <<passes, input_file, content, i, scan, pc, scenes, setup_groups, reorganized_content,
          screenplay_content, schedule_file, screenplay_file, raised_error,
          scene_setup_count, call>>

-----------------------------------------------------------------------------
(* Values and strings *)

None == <<>>

Some(v) == <<v>>

Min(S) == CHOOSE x \in S : \A y \in S : x <= y

Max(S) == CHOOSE x \in S : \A y \in S : x >= y

\* str.strip() and the regular expressions' \s
Whitespace == {" ", "\t"}

LowerCase == <<"a", "b", "c", "d", "e", "f", "g", "h", "i", "j", "k", "l", "m",
               "n", "o", "p", "q", "r", "s", "t", "u", "v", "w", "x", "y", "z">>

UpperCase == <<"A", "B", "C", "D", "E", "F", "G", "H", "I", "J", "K", "L", "M",
               "N", "O", "P", "Q", "R", "S", "T", "U", "V", "W", "X", "Y", "Z">>

Digits == <<"0", "1", "2", "3", "4", "5", "6", "7", "8", "9">>

UpperSet == {UpperCase[k] : k \in 1..Len(UpperCase)}

DigitSet == {Digits[k] : k \in 1..Len(Digits)}

\* str.upper(), one character
UpperMap ==
    [c \in {LowerCase[k] : k \in 1..Len(LowerCase)} |->
        UpperCase[CHOOSE k \in 1..Len(LowerCase) : LowerCase[k] = c]]

UpperChar(c) == IF c \in DOMAIN UpperMap THEN UpperMap[c] ELSE c

Upper(s) == [k \in 1..Len(s) |-> UpperChar(s[k])]

\* str.strip()
Strip(s) ==
    LET keep == {k \in 1..Len(s) : s[k] \notin Whitespace}
    IN  IF keep = {} THEN <<>> ELSE SubSeq(s, Min(keep), Max(keep))

\* str.startswith(prefix)
StartsWith(s, prefix) ==
    /\ Len(s) >= Len(prefix)
    /\ SubSeq(s, 1, Len(prefix)) = prefix

\* str.endswith(suffix)
EndsWith(s, suffix) ==
    /\ Len(s) >= Len(suffix)
    /\ SubSeq(s, Len(s) - Len(suffix) + 1, Len(s)) = suffix

\* the length of the longest run of characters of set cs in s from position p on
RunLength(s, p, cs) ==
    LET stop == {k \in p..Len(s) : s[k] \notin cs}
    IN  IF stop = {} THEN Len(s) - p + 1 ELSE Min(stop) - p

\* int() of a string of decimal digits
RECURSIVE ParseInt(_)
ParseInt(ds) ==
    IF ds = <<>> THEN 0
    ELSE 10 * ParseInt(SubSeq(ds, 1, Len(ds) - 1))
         + (CHOOSE k \in 1..Len(Digits) : Digits[k] = ds[Len(ds)]) - 1

\* str() of a non-negative int
RECURSIVE IntStr(_)
IntStr(n) ==
    IF n < 10 THEN <<Digits[n + 1]>>
    ELSE Append(IntStr(n \div 10), Digits[(n % 10) + 1])

\* str() of an int that may be None, as an f-string field renders it
OptIntStr(v) == IF v = None THEN <<"N", "o", "n", "e">> ELSE IntStr(v[1])

\* Python's truth value of an int that may be None
Truthy(v) == v # None /\ v[1] # 0

-----------------------------------------------------------------------------
(* The two recognition patterns and the scene-heading test *)

SetupLiteral == <<"[", "[", "S", "E", "T", "U", "P">>

\* setup_pattern.match(line): \[\[SETUP\s+([A-Z]):\s*(.+?)\]\] at the start of
\* the line.  \s+ takes the whole run of whitespace; \s* is greedy and is
\* given back one character at a time until (.+?), the shortest non-empty
\* text followed by "]]", finds its "]]".  None, or the two groups.
SetupMatch(line) ==
    LET w1 == RunLength(line, Len(SetupLiteral) + 1, Whitespace)
        p  == Len(SetupLiteral) + 1 + w1      \* the letter
        q  == p + 2                           \* after the colon
        w2 == RunLength(line, q, Whitespace)
        Ends(from) == {e \in (from + 1)..(Len(line) - 1) :
                          line[e] = "]" /\ line[e + 1] = "]"}
        S  == {s \in 0..w2 : Ends(q + s) # {}}
    IN  IF /\ StartsWith(line, SetupLiteral)
           /\ w1 >= 1
           /\ Len(line) >= p + 1
           /\ line[p] \in UpperSet
           /\ line[p + 1] = ":"
           /\ S # {}
        THEN LET start == q + Max(S)
                 e     == Min(Ends(start))
             IN  Some([letter |-> line[p], description |-> SubSeq(line, start, e - 1)])
        ELSE None

\* scene_number_pattern.search(line): the leftmost #(\d+)#.  None, or the digits.
SceneNumberSearch(line) ==
    LET At(k) == /\ line[k] = "#"
                 /\ LET d == RunLength(line, k + 1, DigitSet)
                    IN  /\ d >= 1
                        /\ k + 1 + d <= Len(line)
                        /\ line[k + 1 + d] = "#"
        hits == {k \in 1..Len(line) : At(k)}
    IN  IF hits = {} THEN None
        ELSE LET k == Min(hits)
             IN  Some(SubSeq(line, k + 1, k + RunLength(line, k + 1, DigitSet)))

HeadingPrefixes == {<<"I", "N", "T", ".">>, <<"E", "X", "T", ".">>,
                    <<"I", "N", "T", " ">>, <<"E", "X", "T", " ">>,
                    <<"I", "/", "E", ".">>}

IsSceneHeading(line0) ==
    LET line  == Strip(line0)
        upper == Upper(line)
    IN  IF line = <<>> THEN FALSE
        ELSE IF \E pre \in HeadingPrefixes : StartsWith(upper, pre) THEN TRUE
        ELSE IF StartsWith(line, <<".">>) THEN TRUE
        ELSE FALSE

-----------------------------------------------------------------------------
(* _extract_scenes.  A SceneContent holds its setup as the scanner's        *)
(* current_setup was, <<Setup>> or None, and its scene number and heading    *)
(* likewise.                                                                 *)

SceneContent(setup, scene_number, scene_heading, content_lines) ==
    [setup |-> setup, scene_number |-> scene_number,
     scene_heading |-> scene_heading, content_lines |-> content_lines]

\* mutant: the running scene number starts at 0 instead of None
ScanStartAtZero ==
    [scenes |-> <<>>, current_scene_number |-> Some(0), current_scene_heading |-> None,
     current_setup |-> None, current_content |-> <<>>]

ScanStart ==
    [scenes |-> <<>>, current_scene_number |-> None, current_scene_heading |-> None,
     current_setup |-> None, current_content |-> <<>>]

\* mutant: the save does not test that content was collected
SavePreviousEvenEmpty(s) ==
    IF s.current_setup # None
    THEN [s EXCEPT !.scenes = Append(@, SceneContent(s.current_setup,
                                            s.current_scene_number,
                                            s.current_scene_heading,
                                            s.current_content)),
                   !.current_content = <<>>]
    ELSE s

\* "Save previous content if exists", in the loop: a Setup object is always
\* true, so current_setup is tested against None; an empty list is false.
SavePrevious(s) ==
    IF s.current_setup # None /\ s.current_content # <<>>
    THEN [s EXCEPT !.scenes = Append(@, SceneContent(s.current_setup,
                                            s.current_scene_number,
                                            s.current_scene_heading,
                                            s.current_content)),
                   !.current_content = <<>>]
    ELSE s

\* mutant: an explicit #N# on the heading is ignored
NextSceneNumberCounting(current_scene_number, line) ==
    Some((IF Truthy(current_scene_number) THEN current_scene_number[1] ELSE 0) + 1)

\* the number a scene heading sets
NextSceneNumber(current_scene_number, line) ==
    LET scene_number_match == SceneNumberSearch(line)
    IN  IF scene_number_match # None
        THEN Some(ParseInt(scene_number_match[1]))
        ELSE Some((IF Truthy(current_scene_number) THEN current_scene_number[1] ELSE 0) + 1)

\* mutant: the active setup is carried into the new scene
HeadingBranchKeepingSetup(s, line) ==
    LET t == SavePrevious(s)
    IN  [t EXCEPT !.current_scene_heading = Some(line),
                  !.current_scene_number = NextSceneNumber(t.current_scene_number, line)]

\* the loop body on a scene heading
HeadingBranch(s, line) ==
    LET t == SavePrevious(s)
    IN  [t EXCEPT !.current_setup = None,
                  !.current_scene_heading = Some(line),
                  !.current_scene_number = NextSceneNumber(t.current_scene_number, line)]

\* a marker branch that saves the block and goes on with the same buffer
MarkerBranchKeepingBuffer(s, line) ==
    LET t == [SavePrevious(s) EXCEPT !.current_content = s.current_content]
        setup_match == SetupMatch(line)[1]
    IN  [t EXCEPT !.current_setup = Some([letter |-> setup_match.letter,
                                          description |-> Strip(setup_match.description)])]

\* the loop body on a setup marker
MarkerBranch(s, line) ==
    LET t == SavePrevious(s)
        setup_match == SetupMatch(line)[1]
    IN  [t EXCEPT !.current_setup = Some([letter |-> setup_match.letter,
                                          description |-> Strip(setup_match.description)])]

\* a loop body whose buffer is still the list of the block saved last
ContentBranchIntoLastBlock(s, line) ==
    IF s.current_setup # None
    THEN [s EXCEPT !.current_content = Append(@, line),
                   !.scenes = IF @ = <<>> THEN @
                              ELSE [@ EXCEPT ![Len(@)].content_lines = Append(@, line)]]
    ELSE s

\* a loop body that collects the line without its surrounding whitespace
ContentBranchStripped(s, line) ==
    IF s.current_setup # None
    THEN [s EXCEPT !.current_content = Append(@, Strip(line))]
    ELSE s

\* the loop body on any other line
ContentBranch(s, line) ==
    IF s.current_setup # None
    THEN [s EXCEPT !.current_content = Append(@, line)]
    ELSE s

\* one iteration of the while loop
ScanLine(s, line) ==
    IF IsSceneHeading(line) THEN HeadingBranch(s, line)
    ELSE IF SetupMatch(line) # None THEN MarkerBranch(s, line)
    ELSE ContentBranch(s, line)

\* "Save final content if exists", after the loop
SaveFinal(s) ==
    IF s.current_setup # None /\ s.current_content # <<>>
    THEN [s EXCEPT !.scenes = Append(@, SceneContent(s.current_setup,
                                            s.current_scene_number,
                                            s.current_scene_heading,
                                            s.current_content))]
    ELSE s

\* _extract_scenes(content), whole: the loop over the lines lo..hi, then the
\* final save.  The range is halved so that the evaluation stays shallow on a
\* long text; the list of blocks is only ever appended to, so each half is
\* run on an empty list and the blocks of the halves are put together
RECURSIVE ScanLines(_, _, _, _)
ScanLines(s, lines, lo, hi) ==
    IF lo > hi THEN s
    ELSE IF lo = hi THEN ScanLine(s, lines[lo])
    ELSE LET mid   == (lo + hi) \div 2
             left  == ScanLines([s EXCEPT !.scenes = <<>>], lines, lo, mid)
             right == IF Len(left.scenes) >= 0
                      THEN ScanLines([left EXCEPT !.scenes = <<>>], lines, mid + 1, hi)
                      ELSE left
         IN  [right EXCEPT !.scenes = s.scenes \o left.scenes \o right.scenes]

ExtractScenes(lines) == SaveFinal(ScanLines(ScanStart, lines, 1, Len(lines))).scenes

-----------------------------------------------------------------------------
(* _get_scene_suffix.  The counter map is a function from the keys seen,    *)
(* <<scene_number, setup_letter>>, to their counts; the call yields the map *)
(* as it leaves it, and the suffix returned or the ValueError raised.       *)

\* chr(ord('A') + k)
Chr(k) == UpperCase[k + 1]

\* an error that names the first scene whatever the key
TooManyVariationsOfFirstScene(scene_setup_key) ==
    [type |-> "ValueError",
     scene_number |-> Some(0),
     setup_letter |-> scene_setup_key[2],
     maximum |-> 26 + 26 * 26 + 26 * 26 * 26]

TooManyVariations(scene_setup_key) ==
    [type |-> "ValueError",
     scene_number |-> scene_setup_key[1],
     setup_letter |-> scene_setup_key[2],
     maximum |-> 26 + 26 * 26 + 26 * 26 * 26]

\* mutant: the first letter of a two-letter suffix is taken from the count,
\* not from the count less one
SuffixOfCountOffByOne(count) ==
    IF count <= 26 THEN Some(<<Chr(count - 1)>>)
    ELSE IF count <= 26 + 26 * 26
    THEN LET c      == count - 26
             first  == c \div 26
             second == (c - 1) % 26
         IN  Some(<<Chr(first % 26), Chr(second)>>)
    ELSE IF count <= 26 + 26 * 26 + 26 * 26 * 26
    THEN LET c      == count - (26 + 26 * 26)
             first  == (c - 1) \div (26 * 26)
             second == ((c - 1) \div 26) % 26
             third  == (c - 1) % 26
         IN  Some(<<Chr(first), Chr(second), Chr(third)>>)
    ELSE None

\* mutant: the suffixes stop at ZZ
SuffixOfCountTwoLetters(count) ==
    IF count <= 26 THEN Some(<<Chr(count - 1)>>)
    ELSE IF count <= 26 + 26 * 26
    THEN LET c      == count - 26
             first  == (c - 1) \div 26
             second == (c - 1) % 26
         IN  Some(<<Chr(first), Chr(second)>>)
    ELSE None

\* "Generate suffix: A-Z, then AA-ZZ, then AAA-ZZZ", None past ZZZ
SuffixOfCount(count) ==
    IF count <= 26 THEN Some(<<Chr(count - 1)>>)
    ELSE IF count <= 26 + 26 * 26
    THEN LET c      == count - 26
             first  == (c - 1) \div 26
             second == (c - 1) % 26
         IN  Some(<<Chr(first), Chr(second)>>)
    ELSE IF count <= 26 + 26 * 26 + 26 * 26 * 26
    THEN LET c      == count - (26 + 26 * 26)
             first  == (c - 1) \div (26 * 26)
             second == ((c - 1) \div 26) % 26
             third  == (c - 1) % 26
         IN  Some(<<Chr(first), Chr(second), Chr(third)>>)
    ELSE None

GetSceneSuffix(count_map, scene_setup_key) ==
    IF scene_setup_key \notin DOMAIN count_map
    THEN [scene_setup_count |->
              [k \in DOMAIN count_map \cup {scene_setup_key} |->
                  IF k = scene_setup_key THEN 0 ELSE count_map[k]],
          suffix |-> Some(<<>>),
          raised |-> None]
    ELSE LET count == count_map[scene_setup_key] + 1
         IN  [scene_setup_count |-> [count_map EXCEPT ![scene_setup_key] = count],
              suffix |-> SuffixOfCount(count),
              raised |-> IF SuffixOfCount(count) = None
                         THEN Some(TooManyVariations(scene_setup_key))
                         ELSE None]

-----------------------------------------------------------------------------
(* _group_by_setup.  The dict is a function from the setup letters met to   *)
(* their lists.                                                             *)

\* key=lambda x: x.scene_number or 0
SortKey(scene) == IF Truthy(scene.scene_number) THEN scene.scene_number[1] ELSE 0

\* list.sort(key=...): ascending by key and stable, that is, key by key in
\* ascending order, the elements with that key in their order in the list
\* a sort that turns round the blocks of equal key
RECURSIVE SortKeysReversingTies(_, _)
SortKeysReversingTies(list, keys) ==
    IF keys = {} THEN <<>>
    ELSE LET least == Min(keys)
             tied  == SelectSeq(list, LAMBDA x : SortKey(x) = least)
         IN  [k \in 1..Len(tied) |-> tied[Len(tied) - k + 1]]
                 \o SortKeysReversingTies(list, keys \ {least})

RECURSIVE SortKeys(_, _)
SortKeys(list, keys) ==
    IF keys = {} THEN <<>>
    ELSE LET least == Min(keys)
         IN  SelectSeq(list, LAMBDA x : SortKey(x) = least)
                 \o SortKeys(list, keys \ {least})

SortByKey(list) == SortKeys(list, {SortKey(list[k]) : k \in 1..Len(list)})

\* a grouping by the whole setup, letter and description, of the first block
\* of each letter
GroupBySetupByDescription(scene_list) ==
    [setup_letter \in {scene_list[k].setup[1].letter : k \in 1..Len(scene_list)} |->
        LET first == CHOOSE k \in 1..Len(scene_list) :
                        /\ scene_list[k].setup[1].letter = setup_letter
                        /\ \A j \in 1..(k - 1) :
                               scene_list[j].setup[1].letter # setup_letter
        IN  SortByKey(SelectSeq(scene_list,
                                LAMBDA x : x.setup = scene_list[first].setup))]

GroupBySetup(scene_list) ==
    [setup_letter \in {scene_list[k].setup[1].letter : k \in 1..Len(scene_list)} |->
        SortByKey(SelectSeq(scene_list, LAMBDA x : x.setup[1].letter = setup_letter))]

-----------------------------------------------------------------------------
(* The formatters.  A formatter's result is the text, as its lines, or the  *)
(* exception that left it.                                                  *)

\* '\n'.join(output), as the lines of the joined text
Join(output) == IF output = <<>> THEN << <<>> >> ELSE output

\* a marker token without the suffix
MarkerWithoutSuffix(scene, suffix) ==
    <<"#">> \o OptIntStr(scene.scene_number) \o <<scene.setup[1].letter>> \o <<"#">>

\* f'#{scene.scene_number}{scene.setup.letter}{suffix}#'
Marker(scene, suffix) ==
    <<"#">> \o OptIntStr(scene.scene_number) \o <<scene.setup[1].letter>>
            \o suffix \o <<"#">>

\* f'Scene {scene.scene_number}' if scene.scene_number else 'Scene'
SceneLabel(scene) ==
    IF Truthy(scene.scene_number)
    THEN <<"S", "c", "e", "n", "e", " ">> \o IntStr(scene.scene_number[1])
    ELSE <<"S", "c", "e", "n", "e">>

\* f'.[ ] From {scene_label} (SETUP {letter}: {description}) {marker}'
ScheduleHeading(scene, suffix) ==
    <<".", "[", " ", "]", " ", "F", "r", "o", "m", " ">> \o SceneLabel(scene)
        \o <<" ", "(", "S", "E", "T", "U", "P", " ">> \o <<scene.setup[1].letter>>
        \o <<":", " ">> \o scene.setup[1].description \o <<")", " ">>
        \o Marker(scene, suffix)

\* f'# SETUP {setup_letter}'
SetupHeader(setup_letter) == <<"#", " ", "S", "E", "T", "U", "P", " ">> \o <<setup_letter>>

Divider == <<"-", "-", "-">>

\* a filter that skips the transition lines only
SkippedTransitionsOnly(line) == EndsWith(Strip(line), <<"T", "O", ":">>)

\* "Skip transition lines" and "Skip synopsis lines"
Skipped(line) ==
    \/ EndsWith(Strip(line), <<"T", "O", ":">>)
    \/ StartsWith(Strip(line), <<"=">>)

\* "Remove leading/trailing empty lines": the two while loops
RECURSIVE DropLeadingEmpty(_)
DropLeadingEmpty(content_lines) ==
    IF content_lines # <<>> /\ Strip(content_lines[1]) = <<>>
    THEN DropLeadingEmpty(Tail(content_lines))
    ELSE content_lines

RECURSIVE DropTrailingEmpty(_)
DropTrailingEmpty(content_lines) ==
    IF content_lines # <<>> /\ Strip(content_lines[Len(content_lines)]) = <<>>
    THEN DropTrailingEmpty(SubSeq(content_lines, 1, Len(content_lines) - 1))
    ELSE content_lines

\* a trim that leaves the empty lines at the end
TrimLeadingOnly(content_lines) == DropLeadingEmpty(content_lines)

TrimEmptyLines(content_lines) == DropTrailingEmpty(DropLeadingEmpty(content_lines))

\* a loop body that catches the disambiguator's exception and goes on with
\* an empty suffix
FormatSceneSwallowing(acc, scene) ==
    LET scene_setup_key == <<scene.scene_number, scene.setup[1].letter>>
        r == GetSceneSuffix(acc.scene_setup_count, scene_setup_key)
    IN  [acc EXCEPT
            !.scene_setup_count = r.scene_setup_count,
            !.output = @ \o <<ScheduleHeading(scene, IF r.raised # None THEN <<>>
                                                      ELSE r.suffix[1]), <<>> >>
                         \o TrimEmptyLines(SelectSeq(scene.content_lines,
                                                    LAMBDA line : ~Skipped(line)))
                         \o << <<>> >>]

\* _format_output: the body of the loop over a group's scenes; once the
\* disambiguator has raised, nothing more is done
FormatScene(acc, scene) ==
    IF acc.raised # None THEN acc
    ELSE LET scene_setup_key == <<scene.scene_number, scene.setup[1].letter>>
             r == GetSceneSuffix(acc.scene_setup_count, scene_setup_key)
         IN  IF r.raised # None
             THEN [acc EXCEPT !.scene_setup_count = r.scene_setup_count,
                              !.raised = r.raised]
             ELSE [acc EXCEPT
                     !.scene_setup_count = r.scene_setup_count,
                     !.output = @ \o <<ScheduleHeading(scene, r.suffix[1]), <<>> >>
                                  \o TrimEmptyLines(SelectSeq(scene.content_lines,
                                                             LAMBDA line : ~Skipped(line)))
                                  \o << <<>> >>]

\* the loop over the scenes lo..hi of a group; the range is halved so that
\* the evaluation stays shallow on a long list, and the output, which is only
\* ever appended to, is put together from the output of the halves
RECURSIVE FormatScenes(_, _, _, _)
FormatScenes(acc, scene_list, lo, hi) ==
    IF lo > hi THEN acc
    ELSE IF lo = hi THEN FormatScene(acc, scene_list[lo])
    ELSE LET mid   == (lo + hi) \div 2
             left  == FormatScenes([acc EXCEPT !.output = <<>>], scene_list, lo, mid)
             right == IF Len(left.output) >= 0
                      THEN FormatScenes([left EXCEPT !.output = <<>>], scene_list,
                                        mid + 1, hi)
                      ELSE left
         IN  [right EXCEPT !.output = acc.output \o left.output \o right.output]

\* sorted(setup_groups.keys()), the keys being single upper-case letters
RECURSIVE SortedLetters(_)
SortedLetters(letters) ==
    IF letters = {} THEN <<>>
    ELSE LET first == UpperCase[Min({k \in 1..Len(UpperCase) : UpperCase[k] \in letters})]
         IN  <<first>> \o SortedLetters(letters \ {first})

\* a loop body that goes on with the counter map it finds
FormatGroupKeepingCount(acc, n, setup_letter, scene_list) ==
    IF acc.raised # None THEN acc
    ELSE FormatScenes(
            [acc EXCEPT !.output = @ \o (IF n > 0 THEN <<Divider, <<>> >> ELSE <<>>)
                                     \o <<SetupHeader(setup_letter), <<>> >>],
            scene_list, 1, Len(scene_list))

\* a loop body that puts the separator before the first header too
FormatGroupAlwaysDivided(acc, n, setup_letter, scene_list) ==
    IF acc.raised # None THEN acc
    ELSE FormatScenes(
            [acc EXCEPT !.output = @ \o <<Divider, <<>> >>
                                     \o <<SetupHeader(setup_letter), <<>> >>,
                        !.scene_setup_count = <<>>],
            scene_list, 1, Len(scene_list))

\* the body of the loop over the setup letters, n being enumerate's index
FormatGroup(acc, n, setup_letter, scene_list) ==
    IF acc.raised # None THEN acc
    ELSE FormatScenes(
            [acc EXCEPT !.output = @ \o (IF n > 0 THEN <<Divider, <<>> >> ELSE <<>>)
                                     \o <<SetupHeader(setup_letter), <<>> >>,
                        !.scene_setup_count = <<>>],
            scene_list, 1, Len(scene_list))

RECURSIVE FormatGroups(_, _, _, _)
FormatGroups(acc, groups, letters, n) ==
    IF n >= Len(letters) THEN acc
    ELSE FormatGroups(FormatGroup(acc, n, letters[n + 1], groups[letters[n + 1]]),
                      groups, letters, n + 1)

\* _format_output entered with a counter map left behind by an earlier pass:
\* the text or the exception, and the counter map as this pass leaves it
FormatOutputFrom(groups, left_behind) ==
    LET acc == FormatGroups([output |-> <<>>, scene_setup_count |-> left_behind,
                             raised |-> None],
                            groups, SortedLetters(DOMAIN groups), 0)
    IN  IF acc.raised # None
        THEN [text |-> None, raised |-> acc.raised,
              scene_setup_count |-> acc.scene_setup_count]
        ELSE [text |-> Some(Join(acc.output)), raised |-> None,
              scene_setup_count |-> acc.scene_setup_count]

FormatOutput(groups) ==
    LET r == FormatOutputFrom(groups, <<>>)
    IN  [text |-> r.text, raised |-> r.raised]

\* f'.{scene_prefix}SETUP {letter}: {description} {marker}'
ScreenplayHeading(scene, scene_prefix, suffix) ==
    <<".">> \o scene_prefix \o <<"S", "E", "T", "U", "P", " ">>
        \o <<scene.setup[1].letter>> \o <<":", " ">> \o scene.setup[1].description
        \o <<" ">> \o Marker(scene, suffix)

\* f'SCENE {scene.scene_number} - '
ScenePrefix(scene) ==
    <<"S", "C", "E", "N", "E", " ">> \o OptIntStr(scene.scene_number) \o <<" ", "-", " ">>

\* a loop body that never records the scene it has reached
ScreenplaySceneNeverTracking(acc, scene) ==
    IF acc.raised # None THEN acc
    ELSE LET scene_setup_key == <<scene.scene_number, scene.setup[1].letter>>
             r == GetSceneSuffix(acc.scene_setup_count, scene_setup_key)
             scene_prefix == IF scene.scene_number # acc.current_scene_number
                             THEN ScenePrefix(scene)
                             ELSE <<>>
         IN  IF r.raised # None
             THEN [acc EXCEPT !.scene_setup_count = r.scene_setup_count,
                              !.raised = r.raised]
             ELSE [acc EXCEPT
                     !.scene_setup_count = r.scene_setup_count,
                     !.output = @ \o <<ScreenplayHeading(scene, scene_prefix, r.suffix[1]),
                                       <<>> >>
                                  \o TrimEmptyLines(scene.content_lines)
                                  \o << <<>> >>]

\* a screenplay loop body that counts the variations by scene number alone
ScreenplaySceneKeyedByScene(acc, scene) ==
    IF acc.raised # None THEN acc
    ELSE LET scene_setup_key == <<scene.scene_number, "A">>
             r == GetSceneSuffix(acc.scene_setup_count, scene_setup_key)
             scene_prefix == IF scene.scene_number # acc.current_scene_number
                             THEN ScenePrefix(scene)
                             ELSE <<>>
         IN  IF r.raised # None
             THEN [acc EXCEPT !.scene_setup_count = r.scene_setup_count,
                              !.raised = r.raised]
             ELSE [acc EXCEPT
                     !.scene_setup_count = r.scene_setup_count,
                     !.current_scene_number =
                         IF scene.scene_number # @ THEN scene.scene_number ELSE @,
                     !.output = @ \o <<ScreenplayHeading(scene, scene_prefix, r.suffix[1]),
                                       <<>> >>
                                  \o TrimEmptyLines(scene.content_lines)
                                  \o << <<>> >>]

\* _format_as_screenplay: the body of the loop over the scenes
ScreenplayScene(acc, scene) ==
    IF acc.raised # None THEN acc
    ELSE LET scene_setup_key == <<scene.scene_number, scene.setup[1].letter>>
             r == GetSceneSuffix(acc.scene_setup_count, scene_setup_key)
             scene_prefix == IF scene.scene_number # acc.current_scene_number
                             THEN ScenePrefix(scene)
                             ELSE <<>>
         IN  IF r.raised # None
             THEN [acc EXCEPT !.scene_setup_count = r.scene_setup_count,
                              !.raised = r.raised]
             ELSE [acc EXCEPT
                     !.scene_setup_count = r.scene_setup_count,
                     !.current_scene_number =
                         IF scene.scene_number # @ THEN scene.scene_number ELSE @,
                     !.output = @ \o <<ScreenplayHeading(scene, scene_prefix, r.suffix[1]),
                                       <<>> >>
                                  \o TrimEmptyLines(scene.content_lines)
                                  \o << <<>> >>]

\* the loop over the scenes lo..hi, halved as in FormatScenes
RECURSIVE ScreenplayScenes(_, _, _, _)
ScreenplayScenes(acc, scene_list, lo, hi) ==
    IF lo > hi THEN acc
    ELSE IF lo = hi THEN ScreenplayScene(acc, scene_list[lo])
    ELSE LET mid   == (lo + hi) \div 2
             left  == ScreenplayScenes([acc EXCEPT !.output = <<>>], scene_list, lo, mid)
             right == IF Len(left.output) >= 0
                      THEN ScreenplayScenes([left EXCEPT !.output = <<>>], scene_list,
                                            mid + 1, hi)
                      ELSE left
         IN  [right EXCEPT !.output = acc.output \o left.output \o right.output]

FormatAsScreenplay(scene_list) ==
    LET acc == ScreenplayScenes([output |-> <<>>, scene_setup_count |-> <<>>,
                                 current_scene_number |-> None, raised |-> None],
                                scene_list, 1, Len(scene_list))
    IN  IF acc.raised # None
        THEN [text |-> None, raised |-> acc.raised]
        ELSE [text |-> Some(Join(acc.output)), raised |-> None]

-----------------------------------------------------------------------------
(* The scanner, line by line *)

MaxLines == 4

LineCorpus ==
    { <<"I", "N", "T", ".", " ", "R">>,
      <<"e", "x", "t", " ", "y", " ", "#", "5", "#">>,
      <<".", "z", " ", "#", "0", "#">>,
      <<"[", "[", "S", "E", "T", "U", "P", " ", "A", ":", " ", "w", "]", "]">>,
      <<"[", "[", "S", "E", "T", "U", "P", " ", "B", ":", " ", "c", " ", "]", "]">>,
      <<"H", "i", ".">>,
      <<>>,
      <<" ", "[", "[", "S", "E", "T", "U", "P", " ", "A", ":", " ", "w", "]", "]">> }

\* content.split('\n') of any text has at least one line
ScanDocs == UNION {[1..n -> LineCorpus] : n \in 1..MaxLines}

Idle ==
    /\ passes = 0
    /\ input_file = None
    /\ scenes = None
    /\ setup_groups = None
    /\ reorganized_content = None
    /\ screenplay_content = None
    /\ schedule_file = None
    /\ screenplay_file = None
    /\ raised_error = None

NoCall ==
    /\ scene_setup_count = <<>>
    /\ call = None

InitScan ==
    /\ content \in ScanDocs
    /\ i = 1
    /\ scan = ScanStart
    /\ pc = "scan"
    /\ Idle
    /\ NoCall

ScanFrame ==
    UNCHANGED <<passes, input_file, content, pc, scenes, setup_groups, reorganized_content,
                screenplay_content, schedule_file, screenplay_file, raised_error,
                scene_setup_count, call>>

ScanSceneHeading ==
    /\ pc = "scan"
    /\ i <= Len(content)
    /\ IsSceneHeading(content[i])
    /\ scan' = HeadingBranch(scan, content[i])
    /\ i' = i + 1
    /\ ScanFrame

ScanSetupMarker ==
    /\ pc = "scan"
    /\ i <= Len(content)
    /\ ~IsSceneHeading(content[i])
    /\ SetupMatch(content[i]) # None
    /\ scan' = MarkerBranch(scan, content[i])
    /\ i' = i + 1
    /\ ScanFrame

ScanContentLine ==
    /\ pc = "scan"
    /\ i <= Len(content)
    /\ ~IsSceneHeading(content[i])
    /\ SetupMatch(content[i]) = None
    /\ scan' = ContentBranch(scan, content[i])
    /\ i' = i + 1
    /\ ScanFrame

ScanReturn ==
    /\ pc = "scan"
    /\ i > Len(content)
    /\ scan' = SaveFinal(scan)
    /\ scenes' = scan'.scenes
    /\ pc' = "scanned"
    /\ UNCHANGED <<passes, input_file, content, i, setup_groups, reorganized_content, screenplay_content,
                   schedule_file, screenplay_file, raised_error, scene_setup_count, call>>

NextScan ==
    \/ ScanSceneHeading
    \/ ScanSetupMarker
    \/ ScanContentLine
    \/ ScanReturn

SpecScan == InitScan /\ [][NextScan]_vars

\* the step-by-step scan and the whole-function operator agree
ScanAgrees == pc = "scanned" => scenes = ExtractScenes(content)

-----------------------------------------------------------------------------
(* The document, read line by line: what the claims about the scanner say   *)
(* of it                                                                    *)

\* how the scanner's tests classify each line of the corpus, in the loop's
\* order of precedence, and what the two patterns capture from it
LineKind ==
    [l \in LineCorpus |->
        IF IsSceneHeading(l) THEN "heading"
        ELSE IF SetupMatch(l) # None THEN "marker"
        ELSE "content"]

ExplicitNumber ==
    [l \in LineCorpus |->
        IF SceneNumberSearch(l) = None THEN None
        ELSE Some(ParseInt(SceneNumberSearch(l)[1]))]

MarkerSetup ==
    [l \in {x \in LineCorpus : SetupMatch(x) # None} |->
        [letter |-> SetupMatch(l)[1].letter,
         description |-> Strip(SetupMatch(l)[1].description)]]

IsHeadingAt(k) == LineKind[content[k]] = "heading"

IsMarkerAt(k) == LineKind[content[k]] = "marker"

IsContentAt(k) == LineKind[content[k]] = "content"

\* the lines the scan has processed
Processed == 1..(i - 1)

\* the number of content lines that directly follow line m
RunAfter(m) ==
    LET stop == {k \in (m + 1)..Len(content) : ~IsContentAt(k)}
    IN  IF stop = {} THEN Len(content) - m ELSE Min(stop) - m - 1

ContentRun(m) == SubSeq(content, m + 1, m + RunAfter(m))

\* the setup markers whose run of content lines is not empty and has been
\* closed, by a processed heading or marker or by the end of the input
ClosedMarkers ==
    {m \in Processed : /\ IsMarkerAt(m)
                       /\ RunAfter(m) >= 1
                       /\ \/ m + RunAfter(m) + 1 \in Processed
                          \/ pc = "scanned"}

\* the k-th smallest member of a set of numbers
Nth(S, k) == CHOOSE m \in S : Cardinality({x \in S : x < m}) = k - 1

\* the setup a marker line names
SetupOf(m) == MarkerSetup[content[m]]

\* the headings among the first j lines
HeadingsTo(j) == {k \in 1..j : IsHeadingAt(k)}

\* the scene number in force after the first j lines, by the rule of the
\* data model: an explicit #N# sets it, an unnumbered heading adds one to the
\* previous scene's number, the very first unnumbered heading gets 1
RECURSIVE NumberAfter(_)
NumberAfter(j) ==
    IF j = 0 THEN None
    ELSE IF ~IsHeadingAt(j) THEN NumberAfter(j - 1)
    ELSE IF ExplicitNumber[content[j]] # None THEN ExplicitNumber[content[j]]
    ELSE IF NumberAfter(j - 1) = None THEN Some(1)
    ELSE Some(NumberAfter(j - 1)[1] + 1)

NoExplicitNumbers ==
    \A k \in 1..Len(content) : IsHeadingAt(k) => ExplicitNumber[content[k]] = None

\* C1: the scanner emits at most one block per setup marker: one for each
\* marker whose following run of content lines is not empty (once that run is
\* closed), none for a marker directly followed by a heading, a marker or the
\* end of the input; every block has a setup and at least one content line.
C1_BlocksPerMarker ==
    /\ Len(scan.scenes) <= Cardinality({m \in Processed : IsMarkerAt(m)})
    /\ Len(scan.scenes) = Cardinality(ClosedMarkers)
    /\ \A m \in Processed :
          (IsMarkerAt(m) /\ RunAfter(m) = 0) => m \notin ClosedMarkers
    /\ \A k \in 1..Len(scan.scenes) :
          /\ scan.scenes[k].setup # None
          /\ scan.scenes[k].content_lines # <<>>

\* C1 witness: a finished scan that emitted a block and in which some marker,
\* followed by no content line, yielded none
C1_Witness ==
    /\ pc = "scanned"
    /\ Len(scenes) >= 1
    /\ \E m \in 1..Len(content) : IsMarkerAt(m) /\ RunAfter(m) = 0

\* C2: the current scene number is the one the numbering rule gives for the
\* lines read so far; without explicit numbers it is the count of headings
\* read; every block carries the number in force at its setup marker.
C2_SceneNumbering ==
    /\ scan.current_scene_number = NumberAfter(i - 1)
    /\ NoExplicitNumbers =>
          scan.current_scene_number =
              (IF HeadingsTo(i - 1) = {} THEN None
               ELSE Some(Cardinality(HeadingsTo(i - 1))))
    /\ LET closed == ClosedMarkers
       IN  \A k \in 1..Len(scan.scenes) :
              /\ k <= Cardinality(closed)
              /\ scan.scenes[k].scene_number = NumberAfter(Nth(closed, k))

\* C2 witness: a block emitted under an unnumbered heading that follows a
\* heading with an explicit number
C2_Witness ==
    /\ pc = "scanned"
    /\ \E h \in 2..Len(content) :
          /\ IsHeadingAt(h)
          /\ ExplicitNumber[content[h]] = None
          /\ NumberAfter(h - 1) # None
          /\ NumberAfter(h - 1)[1] >= 2
          /\ \E k \in 1..Len(scenes) : scenes[k].scene_number = NumberAfter(h)

\* C3 as stated: every stored block has a positive scene number
C3_Positive ==
    \A k \in 1..Len(scan.scenes) :
        /\ scan.scenes[k].scene_number # None
        /\ scan.scenes[k].scene_number[1] > 0

\* C3 amended: a block's scene number is that of its enclosing scene: None
\* when no heading precedes its setup marker, otherwise a natural number,
\* which is 0 only when the enclosing heading carries an explicit zero.
C3_SceneNumberOfBlock ==
    LET closed == ClosedMarkers
    IN  \A k \in 1..Len(scan.scenes) :
           /\ k <= Cardinality(closed)
           /\ LET m == Nth(closed, k)
                  n == scan.scenes[k].scene_number
              IN  IF HeadingsTo(m) = {}
                  THEN n = None /\ scan.scenes[k].scene_heading = None
                  ELSE /\ n # None
                       /\ n[1] \in Nat
                       /\ n = NumberAfter(m)
                       /\ scan.scenes[k].scene_heading = Some(content[Max(HeadingsTo(m))])
                       /\ n[1] = 0 => ExplicitNumber[content[Max(HeadingsTo(m))]] = Some(0)

\* C3 witness: a finished scan with a block under a heading numbered #0#
C3_Witness ==
    /\ pc = "scanned"
    /\ \E k \in 1..Len(scenes) :
          /\ scenes[k].scene_number = Some(0)
          /\ scenes[k].scene_heading # None
          /\ ExplicitNumber[scenes[k].scene_heading[1]] = Some(0)

\* C4: a heading clears the active setup, and every block holds exactly the
\* run of content lines that directly follows its own setup marker, in
\* document order, under that marker's setup: no line after a heading and
\* before the next marker, no heading and no marker is in any block.
C4_SetupScope ==
    /\ (i > 1 /\ IsHeadingAt(i - 1)) =>
          scan.current_setup = None /\ scan.current_content = <<>>
    /\ LET closed == ClosedMarkers
       IN  \A k \in 1..Len(scan.scenes) :
              /\ k <= Cardinality(closed)
              /\ scan.scenes[k].content_lines = ContentRun(Nth(closed, k))
              /\ scan.scenes[k].setup = Some(SetupOf(Nth(closed, k)))
              /\ \A j \in 1..Len(scan.scenes[k].content_lines) :
                    LineKind[scan.scenes[k].content_lines[j]] = "content"

\* C4 witness: a finished scan that emitted a block although a content line
\* stands between a heading and the next setup marker
C4_Witness ==
    /\ pc = "scanned"
    /\ Len(scenes) >= 1
    /\ \E h \in 1..(Len(content) - 1) :
          /\ IsHeadingAt(h)
          /\ IsContentAt(h + 1)
          /\ \E m \in 1..(h - 1) : IsMarkerAt(m) /\ RunAfter(m) >= 1

-----------------------------------------------------------------------------
(* The disambiguator, called again and again on one counter map *)

MaxCalls == 18281

MaxOtherCalls == 2

SuffixKeys == {<<Some(3), "A">>, <<None, "B">>}

InitSuffix ==
    /\ scene_setup_count = <<>>
    /\ call = [key |-> None, suffix |-> None, raised |-> None, nth |-> 0,
               prev |-> None, before |-> <<>>,
               made |-> [k \in SuffixKeys |-> 0],
               last |-> [k \in SuffixKeys |-> None]]
    /\ content = <<>>
    /\ i = 1
    /\ scan = ScanStart
    /\ pc = "suffix"
    /\ Idle

\* one key may be used up to MaxCalls times while the others stay within
\* MaxOtherCalls
MayCall(key) ==
    /\ call.made[key] < MaxCalls
    /\ call.made[key] >= MaxOtherCalls =>
          \A o \in SuffixKeys \ {key} : call.made[o] <= MaxOtherCalls

\* suffix = self._get_scene_suffix(scene_setup_count, scene_setup_key); call
\* records the key, the outcome and, per key, the calls made and the suffix
\* returned last
GetSuffixCall ==
    /\ pc = "suffix"
    /\ \E key \in SuffixKeys :
          /\ MayCall(key)
          /\ LET r == GetSceneSuffix(scene_setup_count, key)
             IN  /\ scene_setup_count' = r.scene_setup_count
                 /\ call' = [key    |-> Some(key),
                             suffix |-> r.suffix,
                             raised |-> r.raised,
                             nth    |-> call.made[key] + 1,
                             prev   |-> call.last[key],
                             before |-> scene_setup_count,
                             made   |-> [call.made EXCEPT ![key] = @ + 1],
                             last   |-> [call.last EXCEPT ![key] = r.suffix]]
    /\ UNCHANGED <<passes, input_file, content, i, scan, pc, scenes, setup_groups, reorganized_content,
                   screenplay_content, schedule_file, screenplay_file, raised_error>>

NextSuffix == GetSuffixCall

SpecSuffix == InitSuffix /\ [][NextSuffix]_vars

\* the n-th numeral of bijective base-26 numbering over A..Z (the 0th is empty)
RECURSIVE Bijective26(_)
Bijective26(n) ==
    IF n = 0 THEN <<>>
    ELSE Append(Bijective26((n - 1) \div 26), UpperCase[((n - 1) % 26) + 1])

\* the place of a numeral in that numbering
RECURSIVE Rank(_)
Rank(numeral) ==
    IF numeral = <<>> THEN 0
    ELSE 26 * Rank(SubSeq(numeral, 1, Len(numeral) - 1))
         + (CHOOSE k \in 1..Len(UpperCase) : UpperCase[k] = numeral[Len(numeral)])

\* C6: the k-th call with a key, when it returns, returns the (k-1)-th
\* numeral of bijective base-26 numbering (the empty string for k = 1), which
\* comes after the suffix the previous call with that key returned, and it
\* leaves the counts of the other keys as they were.
C6_SuffixSequence ==
    (call.key # None /\ call.raised = None) =>
        /\ call.suffix = Some(Bijective26(call.nth - 1))
        /\ call.nth = 1 => call.suffix = Some(<<>>)
        /\ call.prev # None => Rank(call.prev[1]) < Rank(call.suffix[1])
        /\ \A o \in DOMAIN call.before \ {call.key[1]} :
              scene_setup_count[o] = call.before[o]

\* C6 witness: the first three-letter suffix, returned after calls with
\* another key
C6_Witness ==
    /\ call.key # None
    /\ call.nth = 704
    /\ call.suffix = Some(<<"A", "A", "A">>)
    /\ call.prev = Some(<<"Z", "Z">>)
    /\ \E o \in SuffixKeys \ {call.key[1]} : call.made[o] >= 2

\* C7 as stated: occurrences 1..18278 return at most three letters and the
\* 18279th raises
C7_Capacity18278 ==
    call.key # None =>
        /\ call.nth <= 18278 => (call.raised = None /\ Len(call.suffix[1]) <= 3)
        /\ call.nth = 18279 => call.raised # None

\* C7 amended: a key has room for 18279 occurrences, the first without a
\* suffix and 18278 with one: every occurrence up to and including the
\* 18279th returns at most three letters (the 18279th ZZZ), and every later
\* one raises the error, which names the key's scene number and setup letter.
C7_Capacity ==
    call.key # None =>
        /\ call.nth <= 26 + 26 * 26 + 26 * 26 * 26 + 1 =>
              (call.raised = None /\ call.suffix # None /\ Len(call.suffix[1]) <= 3)
        /\ call.nth = 26 + 26 * 26 + 26 * 26 * 26 + 1 =>
              call.suffix = Some(<<"Z", "Z", "Z">>)
        /\ call.nth > 26 + 26 * 26 + 26 * 26 * 26 + 1 =>
              /\ call.suffix = None
              /\ call.raised # None
              /\ call.raised[1].scene_number = call.key[1][1]
              /\ call.raised[1].setup_letter = call.key[1][2]

\* C7 witness: the 18280th occurrence of a key raises
C7_Witness ==
    /\ call.key # None
    /\ call.nth = 18280
    /\ call.raised # None
    /\ call.prev = Some(<<"Z", "Z", "Z">>)

-----------------------------------------------------------------------------
(* main() and the two entry points, a call at a time *)

MaxSegments == 4

\* pieces of a screenplay: a heading, a setup marker with its lines, or both
SegmentCorpus ==
    { << <<"I", "N", "T", ".", " ", "R">> >>,
      << <<"E", "X", "T", ".", " ", "Y", " ", "#", "5", "#">> >>,
      << <<"[", "[", "S", "E", "T", "U", "P", " ", "A", ":", " ", "w", "]", "]">>,
         <<"H", "i", ".">> >>,
      << <<"[", "[", "S", "E", "T", "U", "P", " ", "B", ":", " ", "c", "]", "]">>,
         <<>>,
         <<"C", "U", "T", " ", "T", "O", ":">>,
         <<>>,
         <<"B", "y", "e", ".">>,
         <<>>,
         <<"Y", "o">>,
         <<>>,
         <<"=", " ", "s">>,
         <<>> >>,
      << <<"[", "[", "S", "E", "T", "U", "P", " ", "A", ":", " ", "x", "]", "]">>,
         <<"Y", "o">> >>,
      << <<"[", "[", "S", "E", "T", "U", "P", " ", "A", ":", " ", "w", "]", "]">>,
         <<>>,
         <<" ">> >>,
      << <<".", "z", " ", "#", "0", "#">>,
         <<"[", "[", "S", "E", "T", "U", "P", " ", "A", ":", " ", "w", "]", "]">>,
         <<"H", "i", ".">> >> }

RECURSIVE Flatten(_)
Flatten(segments) ==
    IF segments = <<>> THEN <<>> ELSE Head(segments) \o Flatten(Tail(segments))

\* the scenario of the specification's testable properties
ExampleDoc ==
    << <<"I", "N", "T", ".", " ", "R", "O", "O", "M", " ", "-", " ", "D", "A", "Y">>,
       <<"[", "[", "S", "E", "T", "U", "P", " ", "A", ":", " ", "w", "i", "d", "e", "]", "]">>,
       <<"H", "e", "l", "l", "o", ".">>,
       <<"[", "[", "S", "E", "T", "U", "P", " ", "B", ":", " ", "c", "l", "o", "s", "e", "]", "]">>,
       <<"B", "y", "e", ".">>,
       <<"E", "X", "T", ".", " ", "Y", "A", "R", "D", " ", "#", "5", "#">>,
       <<"[", "[", "S", "E", "T", "U", "P", " ", "A", ":", " ", "w", "i", "d", "e", "]", "]">>,
       <<"O", "u", "t", "s", "i", "d", "e", ".">> >>

\* every text of up to n pieces
SegmentDocs(n) ==
    {Flatten(segments) : segments \in UNION {[1..m -> SegmentCorpus] : m \in 1..n}}

\* the texts of the input file: the empty text, the scenario, and every text
\* of up to MaxSegments pieces
MainDocs == {<< <<>> >>, ExampleDoc} \cup SegmentDocs(MaxSegments)

\* the entry points: main(), or parse_file_as_screenplay called on its own
EntryPoints == {"parse_file", "api_scan"}

\* content is None when the input file does not exist
InitMain ==
    /\ content \in MainDocs \cup {None}
    /\ pc \in EntryPoints
    /\ i = 1
    /\ scan = ScanStart
    /\ Idle
    /\ NoCall

MainFrame == UNCHANGED <<passes, input_file, content, i, scan, scene_setup_count, call>>

\* open(file_path) raises FileNotFoundError: main prints it and exits 1, a
\* caller of parse_file_as_screenplay gets it
OpenFails ==
    /\ pc \in EntryPoints
    /\ content = None
    /\ raised_error' = Some([type |-> "FileNotFoundError"])
    /\ pc' = IF pc = "api_scan" THEN "api_raised" ELSE "exit1"
    /\ UNCHANGED <<scenes, setup_groups, reorganized_content, screenplay_content,
                   schedule_file, screenplay_file>>
    /\ MainFrame

\* parse_file: scenes = self._extract_scenes(content)
ParseFileScan ==
    /\ pc = "parse_file"
    /\ content # None
    /\ scenes' = ExtractScenes(content)
    /\ pc' = "group"
    /\ UNCHANGED <<setup_groups, reorganized_content, screenplay_content,
                   schedule_file, screenplay_file, raised_error>>
    /\ MainFrame

\* parse_file: setup_groups = self._group_by_setup(scenes)
ParseFileGroup ==
    /\ pc = "group"
    /\ setup_groups' = Some(GroupBySetup(scenes))
    /\ pc' = "format"
    /\ UNCHANGED <<scenes, reorganized_content, screenplay_content,
                   schedule_file, screenplay_file, raised_error>>
    /\ MainFrame

\* parse_file: return self._format_output(setup_groups), assigned by main to
\* reorganized_content; an exception goes to main's handler
ParseFileFormat ==
    /\ pc = "format"
    /\ LET r == FormatOutput(setup_groups[1])
       IN  IF r.raised # None
           THEN /\ raised_error' = r.raised
                /\ pc' = "exit1"
                /\ UNCHANGED reorganized_content
           ELSE /\ reorganized_content' = r.text
                /\ pc' = "parse_screenplay"
                /\ UNCHANGED raised_error
    /\ UNCHANGED <<scenes, setup_groups, screenplay_content, schedule_file,
                   screenplay_file>>
    /\ MainFrame

\* parse_file_as_screenplay: scenes = self._extract_scenes(content)
ScreenplayScan ==
    /\ pc \in {"parse_screenplay", "api_scan"}
    /\ content # None
    /\ scenes' = ExtractScenes(content)
    /\ pc' = IF pc = "api_scan" THEN "api_format" ELSE "screenplay"
    /\ UNCHANGED <<setup_groups, reorganized_content, screenplay_content,
                   schedule_file, screenplay_file, raised_error>>
    /\ MainFrame

\* parse_file_as_screenplay: return self._format_as_screenplay(scenes)
ScreenplayFormat ==
    /\ pc \in {"screenplay", "api_format"}
    /\ LET r == FormatAsScreenplay(scenes)
       IN  IF r.raised # None
           THEN /\ raised_error' = r.raised
                /\ pc' = IF pc = "api_format" THEN "api_raised" ELSE "exit1"
                /\ UNCHANGED screenplay_content
           ELSE /\ screenplay_content' = r.text
                /\ pc' = IF pc = "api_format" THEN "api_returned" ELSE "write_schedule"
                /\ UNCHANGED raised_error
    /\ UNCHANGED <<scenes, setup_groups, reorganized_content, schedule_file,
                   screenplay_file>>
    /\ MainFrame

\* main: f.write(reorganized_content)
WriteSchedule ==
    /\ pc = "write_schedule"
    /\ schedule_file' = reorganized_content
    /\ pc' = "write_screenplay"
    /\ UNCHANGED <<scenes, setup_groups, reorganized_content, screenplay_content,
                   screenplay_file, raised_error>>
    /\ MainFrame

\* main: f.write(screenplay_content), then the report of success
WriteScreenplay ==
    /\ pc = "write_screenplay"
    /\ screenplay_file' = screenplay_content
    /\ pc' = "exit0"
    /\ UNCHANGED <<scenes, setup_groups, reorganized_content, screenplay_content,
                   schedule_file, raised_error>>
    /\ MainFrame

Next ==
    \/ OpenFails
    \/ ParseFileScan
    \/ ParseFileGroup
    \/ ParseFileFormat
    \/ ScreenplayScan
    \/ ScreenplayFormat
    \/ WriteSchedule
    \/ WriteScreenplay

Spec == InitMain /\ [][Next]_vars

-----------------------------------------------------------------------------
(* main() and parse_file_as_screenplay, a run at a time, on files that use  *)
(* up the suffixes of one scene and setup                                   *)

MaxExhaustSegments == 2

\* the suffixes A..Z, AA..ZZ, AAA..ZZZ
Variations == 26 + 26 * 26 + 26 * 26 * 26

\* a text of n one-line blocks of setup A in one scene
ExhaustDoc(n) ==
    << <<"I", "N", "T", ".", " ", "R">> >>
        \o [k \in 1..(2 * n) |->
               IF k % 2 = 1
               THEN <<"[", "[", "S", "E", "T", "U", "P", " ", "A", ":", " ", "w", "]", "]">>
               ELSE <<"H", "i", ".">>]

\* the files that may be named: a missing one, the short texts, and a text
\* of one block more than the disambiguator has markers for
InputFiles ==
    {[missing |-> TRUE, segments |-> <<>>, blocks |-> 0]}
        \cup {[missing |-> FALSE, segments |-> segments, blocks |-> 0] :
                 segments \in UNION {[1..m -> SegmentCorpus] : m \in 1..MaxExhaustSegments}}
        \cup {[missing |-> FALSE, segments |-> <<>>, blocks |-> Variations + 2]}

\* f.read() of an input file that exists
FileText(file) ==
    IF file.blocks > 0 THEN ExhaustDoc(file.blocks) ELSE Flatten(file.segments)

InitExhaust ==
    /\ passes = 0
    /\ input_file \in InputFiles
    /\ content = None
    /\ pc \in EntryPoints
    /\ i = 1
    /\ scan = ScanStart
    /\ scenes = None
    /\ setup_groups = None
    /\ reorganized_content = None
    /\ screenplay_content = None
    /\ schedule_file = None
    /\ screenplay_file = None
    /\ raised_error = None
    /\ NoCall

\* parse_file(file_path): the schedule text, or the exception that left it
ParseFile(file) ==
    IF file.missing
    THEN [text |-> None, raised |-> Some([type |-> "FileNotFoundError"])]
    ELSE FormatOutput(GroupBySetup(ExtractScenes(FileText(file))))

\* parse_file_as_screenplay(file_path), likewise
ParseFileAsScreenplay(file) ==
    IF file.missing
    THEN [text |-> None, raised |-> Some([type |-> "FileNotFoundError"])]
    ELSE FormatAsScreenplay(ExtractScenes(FileText(file)))

\* main(): both texts are made, then both files written; an exception is
\* printed and the exit status is 1
Main ==
    /\ pc = "parse_file"
    /\ LET first == ParseFile(input_file)
       IN  IF first.raised # None
           THEN /\ raised_error' = first.raised
                /\ pc' = "exit1"
                /\ UNCHANGED <<schedule_file, screenplay_file>>
           ELSE LET second == ParseFileAsScreenplay(input_file)
                IN  IF second.raised # None
                    THEN /\ raised_error' = second.raised
                         /\ pc' = "exit1"
                         /\ UNCHANGED <<schedule_file, screenplay_file>>
                    ELSE /\ schedule_file' = first.text
                         /\ screenplay_file' = second.text
                         /\ pc' = "exit0"
                         /\ UNCHANGED raised_error
    /\ UNCHANGED <<passes, input_file, content, i, scan, scenes, setup_groups,
                   reorganized_content, screenplay_content, scene_setup_count, call>>

\* a call of parse_file_as_screenplay from other code: the text returned, or
\* the exception
ScreenplayCall ==
    /\ pc = "api_scan"
    /\ LET r == ParseFileAsScreenplay(input_file)
       IN  IF r.raised # None
           THEN /\ raised_error' = r.raised
                /\ pc' = "api_raised"
                /\ UNCHANGED screenplay_content
           ELSE /\ screenplay_content' = r.text
                /\ pc' = "api_returned"
                /\ UNCHANGED raised_error
    /\ UNCHANGED <<passes, input_file, content, i, scan, scenes, setup_groups,
                   reorganized_content, schedule_file, screenplay_file,
                   scene_setup_count, call>>

NextExhaust ==
    \/ Main
    \/ ScreenplayCall

SpecExhaust == InitExhaust /\ [][NextExhaust]_vars

-----------------------------------------------------------------------------
(* What the claims speak of, read off the blocks and the output texts *)

Letters(scene_list) == {scene_list[k].setup[1].letter : k \in 1..Len(scene_list)}

Range(list) == {list[k] : k \in 1..Len(list)}

Occurrences(list, x) == Cardinality({k \in 1..Len(list) : list[k] = x})

LetterIndex(letter) == CHOOSE k \in 1..Len(UpperCase) : UpperCase[k] = letter

\* a line of an output text that is a block heading: no content line of a
\* block starts with a period, the scanner would have taken it for a heading
IsEmittedHeading(line) == line # <<>> /\ line[1] = "."

\* the marker token of a block heading, its last word
MarkerToken(line) ==
    LET spaces == {k \in 1..Len(line) : line[k] = " "}
    IN  SubSeq(line, Max(spaces) + 1, Len(line))

\* the marker tokens of an output text, in order
MarkerTokens(text) ==
    LET headings == SelectSeq(text, IsEmittedHeading)
    IN  [k \in 1..Len(headings) |-> MarkerToken(headings[k])]

\* the scene number a marker token shows, the missing number counting as 0
MarkerNumber(token) ==
    LET digits == RunLength(token, 2, DigitSet)
    IN  IF digits = 0 THEN 0 ELSE ParseInt(SubSeq(token, 2, 1 + digits))

IsSetupHeader(line) ==
    /\ Len(line) = 9
    /\ SubSeq(line, 1, 8) = <<"#", " ", "S", "E", "T", "U", "P", " ">>

HeaderPositions(text) == {p \in 1..Len(text) : IsSetupHeader(text[p])}

\* the lines under the header at position p, up to the next header
UnderHeader(text, p) ==
    LET later == {q \in HeaderPositions(text) : q > p}
    IN  SubSeq(text, p + 1, IF later = {} THEN Len(text) ELSE Min(later) - 1)

\* C5: grouping partitions the blocks by setup letter alone: the groups'
\* letters are the letters of the blocks, every block of a group carries the
\* group's letter whatever its description, and each block is in the group of
\* its letter exactly as often as it is in the scan, so that the groups put
\* together are a permutation of the scan
C5_GroupingPartition ==
    setup_groups # None =>
        LET groups == setup_groups[1]
        IN  /\ DOMAIN groups = Letters(scenes)
            /\ \A letter \in DOMAIN groups :
                  /\ groups[letter] # <<>>
                  /\ \A k \in 1..Len(groups[letter]) :
                        /\ groups[letter][k].setup[1].letter = letter
                        /\ Occurrences(groups[letter], groups[letter][k])
                               = Occurrences(scenes, groups[letter][k])
            /\ \A k \in 1..Len(scenes) :
                  scenes[k] \in Range(groups[scenes[k].setup[1].letter])

\* two groups, one of them holding blocks of different descriptions
C5_Witness ==
    /\ setup_groups # None
    /\ Cardinality(DOMAIN setup_groups[1]) >= 2
    /\ \E letter \in DOMAIN setup_groups[1] :
          \E j, k \in 1..Len(setup_groups[1][letter]) :
              setup_groups[1][letter][j].setup[1].description
                  # setup_groups[1][letter][k].setup[1].description

\* C9: within one output text, schedule or screenplay, every block has a
\* heading and no two headings carry the same marker token
C9_MarkersUnique ==
    /\ reorganized_content # None =>
          LET tokens == MarkerTokens(reorganized_content[1])
          IN  /\ Len(tokens) = Len(scenes)
              /\ \A j, k \in 1..Len(tokens) : j # k => tokens[j] # tokens[k]
    /\ screenplay_content # None =>
          LET tokens == MarkerTokens(screenplay_content[1])
          IN  /\ Len(tokens) = Len(scenes)
              /\ \A j, k \in 1..Len(tokens) : j # k => tokens[j] # tokens[k]

\* both texts made, of blocks of two letters, the same scene and letter three
\* times over, so that the suffixes "", A and B are given
C9_Witness ==
    /\ reorganized_content # None
    /\ screenplay_content # None
    /\ Cardinality(Letters(scenes)) >= 2
    /\ \E j, k, l \in 1..Len(scenes) :
          /\ j < k /\ k < l
          /\ scenes[j].scene_number = scenes[k].scene_number
          /\ scenes[k].scene_number = scenes[l].scene_number
          /\ scenes[j].setup[1].letter = scenes[k].setup[1].letter
          /\ scenes[k].setup[1].letter = scenes[l].setup[1].letter

\* the schedule of the scenario
ExampleSchedule ==
    << <<"#", " ", "S", "E", "T", "U", "P", " ", "A">>,
       <<>>,
       <<".", "[", " ", "]", " ", "F", "r", "o", "m", " ", "S", "c", "e", "n", "e", " ", "1",
         " ", "(", "S", "E", "T", "U", "P", " ", "A", ":", " ", "w", "i", "d", "e", ")", " ",
         "#", "1", "A", "#">>,
       <<>>,
       <<"H", "e", "l", "l", "o", ".">>,
       <<>>,
       <<".", "[", " ", "]", " ", "F", "r", "o", "m", " ", "S", "c", "e", "n", "e", " ", "5",
         " ", "(", "S", "E", "T", "U", "P", " ", "A", ":", " ", "w", "i", "d", "e", ")", " ",
         "#", "5", "A", "#">>,
       <<>>,
       <<"O", "u", "t", "s", "i", "d", "e", ".">>,
       <<>>,
       <<"-", "-", "-">>,
       <<>>,
       <<"#", " ", "S", "E", "T", "U", "P", " ", "B">>,
       <<>>,
       <<".", "[", " ", "]", " ", "F", "r", "o", "m", " ", "S", "c", "e", "n", "e", " ", "1",
         " ", "(", "S", "E", "T", "U", "P", " ", "B", ":", " ", "c", "l", "o", "s", "e", ")", " ",
         "#", "1", "B", "#">>,
       <<>>,
       <<"B", "y", "e", ".">>,
       <<>> >>

\* C10: the schedule has one "# SETUP <letter>" header for each letter of the
\* blocks, in ascending letter order; the first header opens the text, every
\* later one follows a "---" line and the blank line after it, and there is no
\* other "---" line; under a header stand the headings of the letter's blocks,
\* their scene numbers ascending; the scenario gives header A with the blocks
\* of scenes 1 and 5, the separator, header B with the block of scene 1
C10_ScheduleLayout ==
    reorganized_content # None =>
        LET text    == reorganized_content[1]
            headers == HeaderPositions(text)
        IN  /\ \A letter \in Letters(scenes) :
                  Cardinality({p \in headers : text[p][9] = letter}) = 1
            /\ \A p \in headers : text[p][9] \in Letters(scenes)
            /\ \A p, q \in headers :
                  p < q => LetterIndex(text[p][9]) < LetterIndex(text[q][9])
            /\ headers # {} => Min(headers) = 1
            /\ \A p \in headers :
                  p # 1 => /\ p > 2
                           /\ text[p - 2] = <<"-", "-", "-">>
                           /\ text[p - 1] = <<>>
            /\ headers # {} =>
                  Cardinality({p \in 1..Len(text) : text[p] = <<"-", "-", "-">>})
                      = Cardinality(headers) - 1
            /\ \A p \in headers :
                  LET tokens == MarkerTokens(UnderHeader(text, p))
                      blocks == SelectSeq(scenes,
                                          LAMBDA x : x.setup[1].letter = text[p][9])
                  IN  /\ Len(tokens) = Len(blocks)
                      /\ \A k \in 1..(Len(tokens) - 1) :
                            MarkerNumber(tokens[k]) <= MarkerNumber(tokens[k + 1])
                      /\ \A k \in 1..Len(blocks) :
                            Cardinality({j \in 1..Len(tokens) :
                                            MarkerNumber(tokens[j]) = SortKey(blocks[k])})
                                = Cardinality({j \in 1..Len(blocks) :
                                                  SortKey(blocks[j]) = SortKey(blocks[k])})
            /\ content = ExampleDoc => text = ExampleSchedule

\* the schedule of the scenario is made
C10_Witness ==
    /\ content = ExampleDoc
    /\ reorganized_content = Some(ExampleSchedule)

\* a schedule of two groups whose blocks stood in descending scene order in
\* the text
C10_WitnessSorted ==
    /\ reorganized_content # None
    /\ Cardinality(HeaderPositions(reorganized_content[1])) >= 2
    /\ \E j, k \in 1..Len(scenes) :
          /\ j < k
          /\ scenes[j].setup[1].letter = scenes[k].setup[1].letter
          /\ SortKey(scenes[j]) > SortKey(scenes[k])

\* the scene and setup of a block, the disambiguator's key
KeyOf(scene) == <<scene.scene_number, scene.setup[1].letter>>

\* the keys that more blocks carry than there are markers for: the bare
\* marker and its Variations suffixes
ExhaustedKeys(scene_list) ==
    {key \in {KeyOf(scene_list[k]) : k \in 1..Len(scene_list)} :
        Cardinality({k \in 1..Len(scene_list) : KeyOf(scene_list[k]) = key})
            > Variations + 1}

\* the exhausted keys of an input file that exists
ExhaustedKeysOf(file) == ExhaustedKeys(ExtractScenes(FileText(file)))

\* C8: when the blocks of one scene and setup outnumber the markers, a run
\* over the file ends with the error and no text is returned, the error names
\* the scene number and setup letter that ran out, and main() writes neither
\* the schedule file nor the screenplay file; a file that exists and exhausts
\* no key is served
C8_ExhaustionAborts ==
    (~input_file.missing /\ pc \notin EntryPoints) =>
        LET exhausted == ExhaustedKeysOf(input_file)
        IN  IF exhausted # {}
            THEN /\ pc \in {"exit1", "api_raised"}
                 /\ raised_error # None
                 /\ raised_error[1].type = "ValueError"
                 /\ <<raised_error[1].scene_number, raised_error[1].setup_letter>>
                        \in exhausted
                 /\ screenplay_content = None
                 /\ schedule_file = None
                 /\ screenplay_file = None
            ELSE /\ raised_error = None
                 /\ pc = "exit0" => (schedule_file # None /\ screenplay_file # None)
                 /\ pc = "api_returned" => screenplay_content # None

\* main() has ended with the error of scene 1, setup A, the blocks being one
\* more than the markers, and no file is written
C8_Witness ==
    /\ pc = "exit1"
    /\ input_file.blocks = Variations + 2
    /\ raised_error # None
    /\ raised_error[1].type = "ValueError"
    /\ raised_error[1].scene_number = Some(1)
    /\ raised_error[1].setup_letter = "A"
    /\ schedule_file = None
    /\ screenplay_file = None

-----------------------------------------------------------------------------
(* The two output texts, block by block *)

\* the key the grouper's order is stated in: the scene number, an absent one
\* counting as 0
OrderKey(scene) == IF scene.scene_number = None THEN 0 ELSE scene.scene_number[1]

\* block j of the scan stands before block k in the schedule: by letter, then
\* by scene number, then by place in the scan
ScheduleBefore(j, k) ==
    \/ LetterIndex(scenes[j].setup[1].letter) < LetterIndex(scenes[k].setup[1].letter)
    \/ /\ scenes[j].setup[1].letter = scenes[k].setup[1].letter
       /\ \/ OrderKey(scenes[j]) < OrderKey(scenes[k])
          \/ OrderKey(scenes[j]) = OrderKey(scenes[k]) /\ j < k

\* the place of block k of the scan among the headings of the schedule
ScheduleRank(k) == 1 + Cardinality({j \in 1..Len(scenes) : ScheduleBefore(j, k)})

HeadingPositions(text) == {p \in 1..Len(text) : IsEmittedHeading(text[p])}

\* a line a formatter puts out itself: a block heading, a setup header, a
\* separator
IsStructural(line) ==
    IsEmittedHeading(line) \/ IsSetupHeader(line) \/ line = <<"-", "-", "-">>

\* the content lines put out under the heading at position p: what stands
\* between the blank line after the heading and the blank line that closes
\* the block
EmittedContent(text, p) ==
    LET stop == {q \in (p + 1)..Len(text) : IsStructural(text[q])}
        last == IF stop = {} THEN Len(text) ELSE Min(stop) - 1
    IN  SubSeq(text, p + 2, last - 1)

\* the content put out for block k of the scan in the schedule and in the
\* screenplay
ScheduleContent(k) ==
    EmittedContent(reorganized_content[1],
                   Nth(HeadingPositions(reorganized_content[1]), ScheduleRank(k)))

ScreenplayContent(k) ==
    EmittedContent(screenplay_content[1],
                   Nth(HeadingPositions(screenplay_content[1]), k))

IsBlank(line) == \A k \in 1..Len(line) : line[k] \in Whitespace

NonBlank(lines) == SelectSeq(lines, LAMBDA line : ~IsBlank(line))

\* a transition line or a synopsis line
IsTransitionOrSynopsis(line) ==
    LET first == {k \in 1..Len(line) : line[k] \notin Whitespace}
    IN  /\ first # {}
        /\ \/ line[Min(first)] = "="
           \/ /\ Max(first) - Min(first) >= 2
              /\ SubSeq(line, Max(first) - 2, Max(first)) = <<"T", "O", ":">>

CutTo == <<"C", "U", "T", " ", "T", "O", ":">>

\* C11: of every block the schedule puts out, blank lines aside, exactly the
\* content lines that are neither transition lines (trimmed text ending in
\* "TO:") nor synopsis lines (trimmed text starting with "="), in order, and
\* the screenplay puts out all of them
C11_Filtering ==
    /\ reorganized_content # None =>
          \A k \in 1..Len(scenes) :
              NonBlank(ScheduleContent(k))
                  = NonBlank(SelectSeq(scenes[k].content_lines,
                                       LAMBDA line : ~IsTransitionOrSynopsis(line)))
    /\ screenplay_content # None =>
          \A k \in 1..Len(scenes) :
              NonBlank(ScreenplayContent(k)) = NonBlank(scenes[k].content_lines)

\* both texts made of a block that holds "CUT TO:" and a synopsis line: the
\* screenplay has the line "CUT TO:", the schedule has not
C11_Witness ==
    /\ reorganized_content # None
    /\ screenplay_content # None
    /\ \E k \in 1..Len(scenes) :
          /\ CutTo \in Range(scenes[k].content_lines)
          /\ <<"=", " ", "s">> \in Range(scenes[k].content_lines)
          /\ CutTo \in Range(ScreenplayContent(k))
          /\ CutTo \notin Range(ScheduleContent(k))
    /\ CutTo \notin Range(reorganized_content[1])

\* a screenplay heading of a block, without and with the scene prefix
PlainHeading(scene, token) ==
    <<".", "S", "E", "T", "U", "P", " ", scene.setup[1].letter, ":", " ">>
        \o scene.setup[1].description \o <<" ">> \o token

PrefixedHeading(scene, token) ==
    <<".", "S", "C", "E", "N", "E", " ">>
        \o (IF scene.scene_number = None THEN <<"N", "o", "n", "e">>
            ELSE IntStr(scene.scene_number[1]))
        \o <<" ", "-", " ">>
        \o <<"S", "E", "T", "U", "P", " ", scene.setup[1].letter, ":", " ">>
        \o scene.setup[1].description \o <<" ">> \o token

\* C12: the screenplay has one heading for each block, in scan order; the
\* heading of a block that has a predecessor carries "SCENE <n> - " exactly
\* when the block's scene number differs from the predecessor's, and the
\* heading of the first block carries it whenever its scene number is set
C12_ScenePrefix ==
    screenplay_content # None =>
        LET text     == screenplay_content[1]
            headings == HeadingPositions(text)
        IN  /\ Cardinality(headings) = Len(scenes)
            /\ \A k \in 1..Len(scenes) :
                  LET heading == text[Nth(headings, k)]
                      token   == MarkerToken(heading)
                  IN  IF k > 1
                      THEN IF scenes[k].scene_number # scenes[k - 1].scene_number
                           THEN heading = PrefixedHeading(scenes[k], token)
                           ELSE heading = PlainHeading(scenes[k], token)
                      ELSE IF scenes[k].scene_number # None
                           THEN heading = PrefixedHeading(scenes[k], token)
                           ELSE heading \in {PlainHeading(scenes[k], token),
                                             PrefixedHeading(scenes[k], token)}

\* a screenplay of three blocks or more: the first numbered, one in its
\* predecessor's scene, one in another scene
C12_Witness ==
    /\ screenplay_content # None
    /\ Len(scenes) >= 3
    /\ scenes[1].scene_number # None
    /\ \E k \in 2..Len(scenes) : scenes[k].scene_number = scenes[k - 1].scene_number
    /\ \E k \in 2..Len(scenes) : scenes[k].scene_number # scenes[k - 1].scene_number

-----------------------------------------------------------------------------
(* The parser used from other code: the scan line by line, then the grouper *)
(* and the formatters called on its result, the schedule more than once     *)

MaxApiLines == 4

MaxFormatCalls == 2

\* a heading, a setup marker, three setup annotations that are not well
\* formed, a blank line and a transition line
ApiCorpus ==
    { <<"I", "N", "T", ".", " ", "R">>,
      <<"[", "[", "S", "E", "T", "U", "P", " ", "A", ":", " ", "w", "]", "]">>,
      <<" ", "[", "[", "S", "E", "T", "U", "P", " ", "A", ":", " ", "w", "]", "]">>,
      <<"[", "[", "S", "E", "T", "U", "P", " ", "a", ":", " ", "w", "]", "]">>,
      <<"[", "[", "S", "E", "T", "U", "P", " ", "A", ":", "]", "]">>,
      <<>>,
      <<"C", "U", "T", " ", "T", "O", ":">> }

ApiDocs == UNION {[1..n -> ApiCorpus] : n \in 1..MaxApiLines}

InitApi ==
    /\ content \in ApiDocs
    /\ i = 1
    /\ scan = ScanStart
    /\ pc = "scan"
    /\ Idle
    /\ NoCall

\* setup_groups = self._group_by_setup(scenes), for a first or a further pass
CallGroupBySetup ==
    /\ pc \in {"scanned", "formatted"}
    /\ passes < MaxFormatCalls
    /\ setup_groups' = Some(GroupBySetup(scenes))
    /\ pc' = "grouped"
    /\ UNCHANGED <<passes, input_file, content, i, scan, scenes, reorganized_content,
                   screenplay_content, schedule_file, screenplay_file, raised_error,
                   scene_setup_count, call>>

\* self._format_output(setup_groups); scene_setup_count is the counter map as
\* the pass leaves it
CallFormatOutput ==
    /\ pc = "grouped"
    /\ LET r == FormatOutputFrom(setup_groups[1], scene_setup_count)
       IN  /\ scene_setup_count' = r.scene_setup_count
           /\ IF r.raised # None
              THEN /\ raised_error' = r.raised
                   /\ pc' = "api_raised"
                   /\ UNCHANGED reorganized_content
              ELSE /\ reorganized_content' = r.text
                   /\ pc' = "formatted"
                   /\ UNCHANGED raised_error
    /\ passes' = passes + 1
    /\ UNCHANGED <<input_file, content, i, scan, scenes, setup_groups,
                   screenplay_content, schedule_file, screenplay_file, call>>

\* self._format_as_screenplay(scenes), after the schedule passes
CallFormatAsScreenplay ==
    /\ pc = "formatted"
    /\ LET r == FormatAsScreenplay(scenes)
       IN  IF r.raised # None
           THEN /\ raised_error' = r.raised
                /\ pc' = "api_raised"
                /\ UNCHANGED screenplay_content
           ELSE /\ screenplay_content' = r.text
                /\ pc' = "api_returned"
                /\ UNCHANGED raised_error
    /\ UNCHANGED <<passes, input_file, content, i, scan, scenes, setup_groups,
                   reorganized_content, schedule_file, screenplay_file,
                   scene_setup_count, call>>

NextApi ==
    \/ ScanSceneHeading
    \/ ScanSetupMarker
    \/ ScanContentLine
    \/ ScanReturn
    \/ CallGroupBySetup
    \/ CallFormatOutput
    \/ CallFormatAsScreenplay

SpecApi == InitApi /\ [][NextApi]_vars

\* C13: a second run of the grouper and the schedule formatter on the same
\* blocks returns the text the first run returned, whatever counter map the
\* first run left behind
C13_SecondPassSame ==
    [][(pc = "grouped" /\ passes >= 1) => reorganized_content' = reorganized_content]_vars

\* a second pass has returned, the first having left counts behind, of a
\* scene and setup met twice
C13_Witness ==
    /\ pc = "formatted"
    /\ passes = 2
    /\ reorganized_content # None
    /\ Len(scenes) >= 2
    /\ \E key \in DOMAIN scene_setup_count : scene_setup_count[key] >= 1

\* the block headings of the two output texts
EmittedHeadings ==
    (IF reorganized_content = None THEN {}
     ELSE {reorganized_content[1][p] : p \in HeadingPositions(reorganized_content[1])})
        \cup (IF screenplay_content = None THEN {}
              ELSE {screenplay_content[1][p] : p \in HeadingPositions(screenplay_content[1])})

\* C14: the scene-number pattern recognises every marker token put out, and
\* a heading line put out, scanned again, takes its scene number from its
\* token
C14_TokensRescanned ==
    \A heading \in EmittedHeadings :
        /\ SceneNumberSearch(MarkerToken(heading)) # None
        /\ IsSceneHeading(heading)
        /\ NextSceneNumber(None, heading) = Some(MarkerNumber(MarkerToken(heading)))

\* C15: a group of the grouper holds the blocks of its letter with scene
\* numbers non-decreasing, an absent number counting as 0, and blocks of
\* equal number in the order the scan gave them
C15_StableSort ==
    setup_groups # None =>
        \A letter \in DOMAIN setup_groups[1] :
            LET group == setup_groups[1][letter]
                same  == {k \in 1..Len(scenes) : scenes[k].setup[1].letter = letter}
            IN  /\ Len(group) = Cardinality(same)
                /\ \A k \in 1..(Len(group) - 1) : OrderKey(group[k]) <= OrderKey(group[k + 1])
                /\ \A k \in same :
                      group[1 + Cardinality({j \in same : ScheduleBefore(j, k)})] = scenes[k]

\* a group where the sort has moved a block forward, past blocks of a higher
\* number, and has kept two different blocks of one number in scan order
C15_Witness ==
    /\ setup_groups # None
    /\ \E j, k, l \in 1..Len(scenes) :
          /\ j < k /\ k < l
          /\ scenes[j].setup[1].letter = scenes[k].setup[1].letter
          /\ scenes[k].setup[1].letter = scenes[l].setup[1].letter
          /\ OrderKey(scenes[j]) > OrderKey(scenes[k])
          /\ OrderKey(scenes[k]) = OrderKey(scenes[l])
          /\ scenes[k] # scenes[l]
          /\ setup_groups[1][scenes[j].setup[1].letter] = <<scenes[k], scenes[l], scenes[j]>>

\* the content lines read so far under an active setup: those with a
\* setup marker before them and nothing but content lines in between
ReadUnderSetup ==
    {k \in Processed : /\ IsContentAt(k)
                       /\ \E m \in 1..(k - 1) : /\ IsMarkerAt(m)
                                                /\ \A j \in (m + 1)..(k - 1) : IsContentAt(j)}

\* the number of lines in the blocks emitted so far
RECURSIVE LinesInBlocks(_)
LinesInBlocks(blocks) ==
    IF blocks = <<>> THEN 0
    ELSE Len(blocks[1].content_lines) + LinesInBlocks(Tail(blocks))

\* C16: a non-empty buffer has an active setup; right after a heading or a
\* marker line the buffer is empty; the lines of the blocks and of the
\* buffer are, one for one, the content lines read under an active setup,
\* so no line is in two blocks (the final save after the loop appends the
\* buffer's lines as the last block and returns)
C16_BufferDiscipline ==
    /\ scan.current_content # <<>> => scan.current_setup # None
    /\ (pc = "scan" /\ i > 1 /\ (IsHeadingAt(i - 1) \/ IsMarkerAt(i - 1)))
           => scan.current_content = <<>>
    /\ pc = "scan" =>
          LinesInBlocks(scan.scenes) + Len(scan.current_content) = Cardinality(ReadUnderSetup)
    /\ pc = "scanned" => LinesInBlocks(scenes) = Cardinality(ReadUnderSetup)
    /\ pc = "scan" => \A k \in 1..Len(scan.current_content) :
          /\ i - 1 - Len(scan.current_content) + k \in ReadUnderSetup
          /\ scan.current_content[k] = content[i - 1 - Len(scan.current_content) + k]

\* a marker line has just closed a block, and the buffer starts again empty
C16_Witness ==
    /\ pc = "scan"
    /\ i > 2
    /\ IsMarkerAt(i - 1)
    /\ IsContentAt(i - 2)
    /\ Len(scan.scenes) >= 1
    /\ scan.current_setup # None
    /\ scan.current_content = <<>>

\* a sequence of lines without its longest runs of blank lines at the start
\* and at the end
TrimBlank(lines) ==
    LET solid == {k \in 1..Len(lines) : ~IsBlank(lines[k])}
    IN  IF solid = {} THEN <<>> ELSE SubSeq(lines, Min(solid), Max(solid))

\* C17: the content a formatter puts out for a block is the block's lines
\* (in the schedule: those left by the filter) without the longest runs of
\* blank lines at the start and at the end; blank lines inside stay in place
C17_BlankTrim ==
    /\ reorganized_content # None =>
          \A k \in 1..Len(scenes) :
              ScheduleContent(k)
                  = TrimBlank(SelectSeq(scenes[k].content_lines,
                                        LAMBDA line : ~IsTransitionOrSynopsis(line)))
    /\ screenplay_content # None =>
          \A k \in 1..Len(scenes) :
              ScreenplayContent(k) = TrimBlank(scenes[k].content_lines)

\* both texts of a block that starts and ends with a blank line, where the
\* filter takes the first and the last solid line away: the schedule content
\* is shorter than the screenplay content, and both keep a blank line inside
C17_Witness ==
    /\ reorganized_content # None
    /\ screenplay_content # None
    /\ \E k \in 1..Len(scenes) :
          LET lines == scenes[k].content_lines
          IN  /\ Len(lines) >= 5
              /\ IsBlank(lines[1])
              /\ IsBlank(lines[Len(lines)])
              /\ IsTransitionOrSynopsis(lines[2])
              /\ IsTransitionOrSynopsis(lines[Len(lines) - 1])
              /\ Len(ScheduleContent(k)) >= 3
              /\ Len(ScheduleContent(k)) < Len(ScreenplayContent(k))
              /\ Len(ScreenplayContent(k)) < Len(lines)
              /\ \E q \in 2..(Len(ScheduleContent(k)) - 1) : IsBlank(ScheduleContent(k)[q])

\* setup annotations that are not well formed: one with a space before
\* "[[", one with a lowercase letter, one with nothing after the colon
LeadingSpaceAnnotation ==
    <<" ", "[", "[", "S", "E", "T", "U", "P", " ", "A", ":", " ", "w", "]", "]">>

LowercaseAnnotation ==
    <<"[", "[", "S", "E", "T", "U", "P", " ", "a", ":", " ", "w", "]", "]">>

EmptyDescriptionAnnotation ==
    <<"[", "[", "S", "E", "T", "U", "P", " ", "A", ":", "]", "]">>

\* the lines of the corpus that are neither a scene heading nor a setup
\* marker
UnrecognisedLines ==
    {LeadingSpaceAnnotation, LowercaseAnnotation, EmptyDescriptionAnnotation, <<>>, CutTo}

\* C18: a line that fails both patterns, a setup annotation that is not well
\* formed included, raises nothing; the scan goes on to the next line with
\* the line appended as it is to the buffer if a setup is active and dropped
\* if none is, and with the active setup, the scene number, the scene
\* heading and the emitted blocks as they were
C18_UnrecognisedLine ==
    [][(pc = "scan" /\ i <= Len(content) /\ content[i] \in UnrecognisedLines)
          => /\ ~IsSceneHeading(content[i])
             /\ SetupMatch(content[i]) = None
             /\ i' = i + 1
             /\ pc' = "scan"
             /\ raised_error' = None
             /\ scan'.current_content = IF scan.current_setup # None
                                        THEN Append(scan.current_content, content[i])
                                        ELSE scan.current_content
             /\ scan'.current_setup = scan.current_setup
             /\ scan'.current_scene_number = scan.current_scene_number
             /\ scan'.current_scene_heading = scan.current_scene_heading
             /\ scan'.scenes = scan.scenes]_vars

\* the three annotations that are not well formed have been read under an
\* active setup and stand in the buffer as they were written
C18_Witness ==
    /\ pc = "scan"
    /\ i = 5
    /\ scan.current_setup # None
    /\ scan.current_content
           = <<LeadingSpaceAnnotation, LowercaseAnnotation, EmptyDescriptionAnnotation>>
    /\ scan.scenes = <<>>

\* an annotation that is not well formed has been read with no setup active
\* and is gone
C18_WitnessDropped ==
    /\ pc = "scan"
    /\ i > 1
    /\ content[i - 1] = LowercaseAnnotation
    /\ scan.current_setup = None
    /\ scan.current_content = <<>>

\* C19: a block is not changed once it is emitted: each step of the scan
\* leaves the emitted blocks as they are and in their places, and the
\* grouper and the two formatters leave the scanner's list of blocks as it
\* was returned
C19_BlocksFrozen ==
    [][/\ Len(scan'.scenes) >= Len(scan.scenes)
       /\ \A k \in 1..Len(scan.scenes) : scan'.scenes[k] = scan.scenes[k]
       /\ pc # "scan" => (scenes' = scenes /\ scenes = scan.scenes)]_vars

\* the grouper and both formatters have run on two blocks or more, one that
\* starts with a blank line for the trim and one with a transition line for
\* the filter; lines were read after the first block was emitted
C19_Witness ==
    /\ pc = "api_returned"
    /\ reorganized_content # None
    /\ screenplay_content # None
    /\ Len(scenes) >= 2
    /\ scenes = scan.scenes
    /\ \E k \in 1..Len(scenes) : IsBlank(scenes[k].content_lines[1])
    /\ \E k \in 1..Len(scenes) : CutTo \in Range(scenes[k].content_lines)

\* the marker token of block k of the scan in the schedule and in the
\* screenplay
ScheduleToken(k) ==
    MarkerToken(reorganized_content[1][Nth(HeadingPositions(reorganized_content[1]),
                                           ScheduleRank(k))])

ScreenplayToken(k) ==
    MarkerToken(screenplay_content[1][Nth(HeadingPositions(screenplay_content[1]), k)])

\* C20: the schedule and the screenplay made of one list of blocks give each
\* block the same marker token
C20_SameToken ==
    (reorganized_content # None /\ screenplay_content # None) =>
        \A k \in 1..Len(scenes) : ScheduleToken(k) = ScreenplayToken(k)

\* both texts of blocks that the schedule puts in another order than the
\* scan, with two blocks of one scene number and letter, two setups in one
\* scene, and a block without scene number
C20_Witness ==
    /\ reorganized_content # None
    /\ screenplay_content # None
    /\ \E k \in 1..Len(scenes) : ScheduleRank(k) # k
    /\ \E j, k \in 1..Len(scenes) :
          /\ j < k
          /\ scenes[j].scene_number = scenes[k].scene_number
          /\ scenes[j].setup[1].letter = scenes[k].setup[1].letter
          /\ ScreenplayToken(k) # ScreenplayToken(j)
    /\ \E j, k \in 1..Len(scenes) :
          /\ scenes[j].scene_number = scenes[k].scene_number
          /\ scenes[j].setup[1].letter # scenes[k].setup[1].letter
    /\ \E k \in 1..Len(scenes) : scenes[k].scene_number = None

====
